---- MODULE Spec2Model ----
(***************************************************************************)
(* Model of the patient-record access gate of best_practice.py and         *)
(* naive_agent.py.  Both scripts open the same SQLite file (patients.db),  *)
(* run the same module-level seeding block inside one Session, and then    *)
(* expose get_patient_record to an agent: naive_agent.py takes the caller  *)
(* identity as a call argument, best_practice.py binds it in a             *)
(* DatabaseAccessWrapper.                                                  *)
(*                                                                         *)
(* The database is modelled as SQLite behaves under SQLAlchemy's Session   *)
(* with the pysqlite driver: SELECTs run outside a transaction and see the *)
(* committed file (or the session's own uncommitted rows), the first       *)
(* INSERT of a session begins a write transaction that needs the single    *)
(* database write lock, commit publishes all of the session's rows at      *)
(* once, and an exception leaves the "with Session" block through a        *)
(* rollback.                                                               *)
(***************************************************************************)
EXTENDS Integers, Sequences, FiniteSets, TLC

\* ------------------------------------------------------------------ bounds
MaxRuns == 2          \* startups of the script per process slot
MaxPid == 4           \* patient ids asked for are 0..MaxPid

Procs == {1, 2}       \* operating-system processes running one of the scripts
NoProc == 0

Variants == {"naive", "best"}

\* ------------------------------------------------------------- seed data
seed_users ==
  << [username |-> "dr_smith",         role |-> "doctor"],
     [username |-> "nurse_johnson",    role |-> "nurse"],
     [username |-> "receptionist_amy", role |-> "receptionist"] >>

seed_patients ==
  << [name |-> "John Doe",   provider_name |-> "Dr. Smith", condition |-> "Flu"],
     [name |-> "Jane Roe",   provider_name |-> "Dr. Smith", condition |-> "Diabetes"],
     [name |-> "Mary Major", provider_name |-> "Dr. Brown", condition |-> "Asthma"] >>

AuthorizedRolesWithReceptionist == {"doctor", "nurse", "receptionist"}

AUTHORIZED_ROLES == {"doctor", "nurse"}

\* identities a request can name, and the patient ids it can ask for
Usernames == {"dr_smith", "nurse_johnson", "receptionist_amy", "unknown_user"}
PatientIds == 0..MaxPid

\* --------------------------------------------------------------- results
None == "None"
NoRow == [absent |-> TRUE]
NoResult == [pending |-> TRUE]
Proceed == [proceed |-> TRUE]
UserNotFound == [error |-> "Access denied: user not found"]
InsufficientPrivileges == [error |-> "Access denied: insufficient privileges"]
PatientNotFound == [error |-> "Patient not found"]

\* ---------------------------------------------------------------- tables
\* A table is the set of its rows; Integer primary_key columns are rowids.
NextId(table) ==
  IF table = {} THEN 1
  ELSE (CHOOSE m \in {r.id : r \in table} : \A r \in table : r.id <= m) + 1

\* Column("username", String, unique=True)
UniqueViolatedNoConstraint(table, rows) == FALSE

UniqueViolated(table, rows) ==
  \/ \E i \in 1..Len(rows) : \E r \in table : r.username = rows[i].username
  \/ \E i, j \in 1..Len(rows) : i # j /\ rows[i].username = rows[j].username

\* users.insert() with a list of rows: ids are handed out in list order
InsertUsersRows(table, rows) ==
  LET n == NextId(table) IN
  table \cup { [id |-> n + i - 1, username |-> rows[i].username, role |-> rows[i].role]
               : i \in 1..Len(rows) }

\* patients.insert() with a list of rows
InsertPatientsRows(table, rows) ==
  LET n == NextId(table) IN
  table \cup { [id |-> n + i - 1, name |-> rows[i].name,
                provider_name |-> rows[i].provider_name, condition |-> rows[i].condition]
               : i \in 1..Len(rows) }

\* session.query(t).count()
Count(table) == Cardinality(table)

\* the guards of the seeding block
UsersTableEmpty(n) == n = 0

PatientsTableEmptyAlways(n) == TRUE

PatientsTableEmpty(n) == n = 0

\* result.fetchone(): the first row in rowid order, or nothing
fetchone(rows) ==
  IF rows = {} THEN NoRow
  ELSE CHOOSE r \in rows : \A s \in rows : r.id <= s.id

EmptyStore == [users |-> {}, patients |-> {}]

\* ----------------------------------------------------------------- state
VARIABLES
  users,      \* committed rows of table users in patients.db
  patients,   \* committed rows of table patients in patients.db
  writer,     \* the process whose session holds the database write lock
  pending,    \* that session's uncommitted view of the two tables
  pc,         \* where each process is in its script
  variant,    \* which script the process runs
  runs,       \* startups so far in each process slot
  seedRuns,   \* seeding blocks that ran to the end of their "with" block
  user_id,    \* DatabaseAccessWrapper.user_id of the process's wrapper
  req,        \* the request the agent is serving
  ret         \* the value the tool call returned

vars == << users, patients, writer, pending, pc, variant, runs, seedRuns,
           user_id, req, ret >>

NoReq == [user |-> None, patient_id |-> 0]

\* what a SELECT of process p sees
ViewUsers(p) == IF writer = p THEN pending.users ELSE users
ViewPatients(p) == IF writer = p THEN pending.patients ELSE patients

Init ==
  /\ users = {}
  /\ patients = {}
  /\ writer = NoProc
  /\ pending = EmptyStore
  /\ pc = [p \in Procs |-> "count_users"]
  /\ variant \in [Procs -> Variants]
  /\ runs = [p \in Procs |-> 1]
  /\ seedRuns = 0
  /\ user_id = [p \in Procs |-> None]
  /\ req = [p \in Procs |-> NoReq]
  /\ ret = [p \in Procs |-> NoResult]

\* --------------------------------------------------------- seeding block
\* if session.query(users).count() == 0:
CountUsers(p) ==
  /\ pc[p] = "count_users"
  /\ pc' = [pc EXCEPT ![p] = IF UsersTableEmpty(Count(ViewUsers(p)))
                             THEN "insert_users" ELSE "count_patients"]
  /\ UNCHANGED << users, patients, writer, pending, variant, runs, seedRuns,
                  user_id, req, ret >>

\* session.execute(users.insert(), [...]): the session's first INSERT takes
\* the write lock; a duplicate username raises IntegrityError, which leaves
\* the "with" block (rollback) and ends the script.
InsertUsers(p) ==
  /\ pc[p] = "insert_users"
  /\ writer \in {NoProc, p}
  /\ LET base == IF writer = p THEN pending
                 ELSE [users |-> users, patients |-> patients] IN
     IF UniqueViolated(base.users, seed_users)
     THEN /\ pc' = [pc EXCEPT ![p] = "crashed"]
          /\ writer' = NoProc
          /\ pending' = EmptyStore
     ELSE /\ pc' = [pc EXCEPT ![p] = "count_patients"]
          /\ writer' = p
          /\ pending' = [base EXCEPT !.users = InsertUsersRows(base.users, seed_users)]
  /\ UNCHANGED << users, patients, variant, runs, seedRuns, user_id, req, ret >>

\* if session.query(patients).count() == 0:
CountPatients(p) ==
  /\ pc[p] = "count_patients"
  /\ pc' = [pc EXCEPT ![p] = IF PatientsTableEmpty(Count(ViewPatients(p)))
                             THEN "insert_patients" ELSE "commit"]
  /\ UNCHANGED << users, patients, writer, pending, variant, runs, seedRuns,
                  user_id, req, ret >>

\* session.execute(patients.insert(), [...])
InsertPatients(p) ==
  /\ pc[p] = "insert_patients"
  /\ writer \in {NoProc, p}
  /\ LET base == IF writer = p THEN pending
                 ELSE [users |-> users, patients |-> patients] IN
     pending' = [base EXCEPT !.patients = InsertPatientsRows(base.patients, seed_patients)]
  /\ writer' = p
  /\ pc' = [pc EXCEPT ![p] = "commit"]
  /\ UNCHANGED << users, patients, variant, runs, seedRuns, user_id, req, ret >>

\* An INSERT while another session holds the write lock: SQLite answers
\* SQLITE_BUSY; when the lock is not released in time the driver raises
\* OperationalError ("database is locked") and the script ends.  Waiting for
\* the lock is the process not taking this step.
InsertLocked(p) ==
  /\ pc[p] \in {"insert_users", "insert_patients"}
  /\ writer \notin {NoProc, p}
  /\ pc' = [pc EXCEPT ![p] = "crashed"]
  /\ UNCHANGED << users, patients, writer, pending, variant, runs, seedRuns,
                  user_id, req, ret >>

\* session.commit(): every row of the session becomes visible at once
Commit(p) ==
  /\ pc[p] = "commit"
  /\ IF writer = p
     THEN /\ users' = pending.users
          /\ patients' = pending.patients
          /\ writer' = NoProc
          /\ pending' = EmptyStore
     ELSE UNCHANGED << users, patients, writer, pending >>
  /\ pc' = [pc EXCEPT ![p] = "ready"]
  /\ seedRuns' = seedRuns + 1
  /\ UNCHANGED << variant, runs, user_id, req, ret >>

\* The script is started again in the slot of a process that has ended
\* (python naive_agent.py / python best_practice.py over the same file).
Restart(p) ==
  /\ pc[p] \in {"ready", "crashed"}
  /\ runs[p] < MaxRuns
  /\ \E v \in Variants : variant' = [variant EXCEPT ![p] = v]
  /\ runs' = [runs EXCEPT ![p] = runs[p] + 1]
  /\ pc' = [pc EXCEPT ![p] = "count_users"]
  /\ user_id' = [user_id EXCEPT ![p] = None]
  /\ req' = [req EXCEPT ![p] = NoReq]
  /\ ret' = [ret EXCEPT ![p] = NoResult]
  /\ UNCHANGED << users, patients, writer, pending, seedRuns >>

\* ------------------------------------------- naive_agent.get_patient_record
NaiveRoleCheckNoPrivilege(U, logged_in_user) ==
  LET user_result == fetchone({r \in U : r.username = logged_in_user}) IN
  IF user_result = NoRow THEN UserNotFound ELSE Proceed

\* user_query, fetchone, the "user not found" and "insufficient privileges"
\* returns
NaiveRoleCheck(U, logged_in_user) ==
  LET user_result == fetchone({r \in U : r.username = logged_in_user}) IN
  IF user_result = NoRow THEN UserNotFound
  ELSE LET user_role == user_result.role IN
       IF user_role \notin AUTHORIZED_ROLES THEN InsufficientPrivileges
       ELSE Proceed

NaivePatientFetchSwapped(P, patient_id) ==
  LET patient_result == fetchone({r \in P : r.id = patient_id}) IN
  IF patient_result = NoRow THEN PatientNotFound
  ELSE [id |-> patient_result.id,
        name |-> patient_result.provider_name,
        provider_name |-> patient_result.name,
        condition |-> patient_result.condition]

\* patient_query, fetchone, the "Patient not found" return and the record
NaivePatientFetch(P, patient_id) ==
  LET patient_result == fetchone({r \in P : r.id = patient_id}) IN
  IF patient_result = NoRow THEN PatientNotFound
  ELSE [id |-> patient_result.id,
        name |-> patient_result.name,
        provider_name |-> patient_result.provider_name,
        condition |-> patient_result.condition]

\* get_patient_record(logged_in_user, patient_id) over a store that does not
\* change during the call
get_patient_record(U, P, logged_in_user, patient_id) ==
  LET d == NaiveRoleCheck(U, logged_in_user) IN
  IF d # Proceed THEN d ELSE NaivePatientFetch(P, patient_id)

\* ------------------------------------------------- DatabaseAccessWrapper
get_user_role_any(U, self_user_id) ==
  LET user_result == fetchone(U) IN
  IF user_result = NoRow THEN None ELSE user_result.role

\* get_user_role(self)
get_user_role(U, self_user_id) ==
  LET user_result == fetchone({r \in U : r.username = self_user_id}) IN
  IF user_result = NoRow THEN None ELSE user_result.role

WrapperRoleCheckWrongDenial(U, self_user_id) ==
  LET user_role == get_user_role(U, self_user_id) IN
  IF user_role = None THEN InsufficientPrivileges
  ELSE IF user_role \notin AUTHORIZED_ROLES THEN InsufficientPrivileges
  ELSE Proceed

\* the first half of DatabaseAccessWrapper.get_patient_record
WrapperRoleCheck(U, self_user_id) ==
  LET user_role == get_user_role(U, self_user_id) IN
  IF user_role = None THEN UserNotFound
  ELSE IF user_role \notin AUTHORIZED_ROLES THEN InsufficientPrivileges
  ELSE Proceed

WrapperPatientFetchNoCheck(P, patient_id) ==
  LET patient_result == fetchone({r \in P : r.id = patient_id}) IN
  IF patient_result = NoRow
  THEN [id |-> patient_id, name |-> None, provider_name |-> None, condition |-> None]
  ELSE [id |-> patient_result.id,
        name |-> patient_result.name,
        provider_name |-> patient_result.provider_name,
        condition |-> patient_result.condition]

\* the second half, in a session of its own
WrapperPatientFetch(P, patient_id) ==
  LET patient_result == fetchone({r \in P : r.id = patient_id}) IN
  IF patient_result = NoRow THEN PatientNotFound
  ELSE [id |-> patient_result.id,
        name |-> patient_result.name,
        provider_name |-> patient_result.provider_name,
        condition |-> patient_result.condition]

\* DatabaseAccessWrapper(user_id).get_patient_record(patient_id) over a store
\* that does not change during the call
wrapper_get_patient_record(U, P, self_user_id, patient_id) ==
  LET d == WrapperRoleCheck(U, self_user_id) IN
  IF d # Proceed THEN d ELSE WrapperPatientFetch(P, patient_id)

\* The identity a tool call of the wrapper runs under: the tool is the bound
\* method wrapper.get_patient_record, whose only parameter is patient_id, so
\* the identity named in the request never reaches it.
WrapperIdentityFromRequest(self_user_id, claimed) == claimed

WrapperIdentity(self_user_id, claimed) == self_user_id

\* ------------------------------------------------------------ gate steps
\* create_agent_for_user(user_id): wrapper = DatabaseAccessWrapper(user_id)
CreateAgent(p, u) ==
  /\ pc[p] = "ready"
  /\ variant[p] = "best"
  /\ user_id' = [user_id EXCEPT ![p] = u]
  /\ UNCHANGED << users, patients, writer, pending, pc, variant, runs, seedRuns,
                  req, ret >>

\* agent.chat(...): the agent turns a request naming identity c and patient
\* pid into a tool call.  naive_agent passes both on as arguments.
NaiveCall(p, c, pid) ==
  /\ pc[p] = "ready"
  /\ variant[p] = "naive"
  /\ req' = [req EXCEPT ![p] = [user |-> c, patient_id |-> pid]]
  /\ ret' = [ret EXCEPT ![p] = NoResult]
  /\ pc' = [pc EXCEPT ![p] = "role_lookup"]
  /\ UNCHANGED << users, patients, writer, pending, variant, runs, seedRuns, user_id >>

\* best_practice passes patient_id only; the call runs as the wrapper's user
WrapperCall(p, c, pid) ==
  /\ pc[p] = "ready"
  /\ variant[p] = "best"
  /\ user_id[p] # None
  /\ req' = [req EXCEPT ![p] = [user |-> WrapperIdentity(user_id[p], c),
                                patient_id |-> pid]]
  /\ ret' = [ret EXCEPT ![p] = NoResult]
  /\ pc' = [pc EXCEPT ![p] = "role_lookup"]
  /\ UNCHANGED << users, patients, writer, pending, variant, runs, seedRuns, user_id >>

NaiveRoleLookup(p) ==
  /\ pc[p] = "role_lookup"
  /\ variant[p] = "naive"
  /\ LET d == NaiveRoleCheck(ViewUsers(p), req[p].user) IN
     IF d = Proceed
     THEN /\ pc' = [pc EXCEPT ![p] = "patient_lookup"]
          /\ ret' = ret
     ELSE /\ pc' = [pc EXCEPT ![p] = "returned"]
          /\ ret' = [ret EXCEPT ![p] = d]
  /\ UNCHANGED << users, patients, writer, pending, variant, runs, seedRuns,
                  user_id, req >>

NaivePatientLookup(p) ==
  /\ pc[p] = "patient_lookup"
  /\ variant[p] = "naive"
  /\ ret' = [ret EXCEPT ![p] = NaivePatientFetch(ViewPatients(p), req[p].patient_id)]
  /\ pc' = [pc EXCEPT ![p] = "returned"]
  /\ UNCHANGED << users, patients, writer, pending, variant, runs, seedRuns,
                  user_id, req >>

WrapperRoleLookup(p) ==
  /\ pc[p] = "role_lookup"
  /\ variant[p] = "best"
  /\ LET d == WrapperRoleCheck(ViewUsers(p), req[p].user) IN
     IF d = Proceed
     THEN /\ pc' = [pc EXCEPT ![p] = "patient_lookup"]
          /\ ret' = ret
     ELSE /\ pc' = [pc EXCEPT ![p] = "returned"]
          /\ ret' = [ret EXCEPT ![p] = d]
  /\ UNCHANGED << users, patients, writer, pending, variant, runs, seedRuns,
                  user_id, req >>

WrapperPatientLookup(p) ==
  /\ pc[p] = "patient_lookup"
  /\ variant[p] = "best"
  /\ ret' = [ret EXCEPT ![p] = WrapperPatientFetch(ViewPatients(p), req[p].patient_id)]
  /\ pc' = [pc EXCEPT ![p] = "returned"]
  /\ UNCHANGED << users, patients, writer, pending, variant, runs, seedRuns,
                  user_id, req >>

\* the result goes back to the agent and the call's frame is gone
Return(p) ==
  /\ pc[p] = "returned"
  /\ pc' = [pc EXCEPT ![p] = "ready"]
  /\ req' = [req EXCEPT ![p] = NoReq]
  /\ ret' = [ret EXCEPT ![p] = NoResult]
  /\ UNCHANGED << users, patients, writer, pending, variant, runs, seedRuns, user_id >>

\* --------------------------------------------------------- specifications
SeedNext ==
  \E p \in Procs :
    \/ CountUsers(p)
    \/ InsertUsers(p)
    \/ CountPatients(p)
    \/ InsertPatients(p)
    \/ InsertLocked(p)
    \/ Commit(p)
    \/ Restart(p)

GateNext ==
  \E p \in Procs :
    \/ \E u \in Usernames : CreateAgent(p, u)
    \/ \E c \in Usernames, pid \in PatientIds : NaiveCall(p, c, pid)
    \/ \E c \in Usernames, pid \in PatientIds : WrapperCall(p, c, pid)
    \/ NaiveRoleLookup(p)
    \/ NaivePatientLookup(p)
    \/ WrapperRoleLookup(p)
    \/ WrapperPatientLookup(p)
    \/ Return(p)

Next == SeedNext \/ GateNext

Spec == Init /\ [][Next]_vars

\* The gate over any store the schema allows: patients.db is a file that
\* outlives the process, so get_patient_record is also checked as a function
\* of stores other than the seeded one.
RoleUniverse == {"doctor", "nurse", "receptionist"}

UserRowId(u) ==
  CASE u = "dr_smith" -> 1
    [] u = "nurse_johnson" -> 2
    [] u = "receptionist_amy" -> 3
    [] OTHER -> 4

\* every users table with at most one row per username
UserTables ==
  { { [id |-> UserRowId(u), username |-> u, role |-> f[u]] : u \in S } :
      <<S, f>> \in { <<S, f>> \in (SUBSET Usernames) \X [Usernames -> RoleUniverse] :
                       \A u \in Usernames \ S : f[u] = "doctor" } }

SeededUsers == InsertUsersRows({}, seed_users)
SeededPatients == InsertPatientsRows({}, seed_patients)

OtherPatient(i) ==
  [id |-> i, name |-> "Richard Miles", provider_name |-> "Dr. Brown", condition |-> "Flu"]

SeedIds == 1..Len(seed_patients)

\* patients tables: each id absent, holding its seed row, or holding another row
PatientTables ==
  { { IF k[i] = "seed"
      THEN [id |-> i, name |-> seed_patients[i].name,
            provider_name |-> seed_patients[i].provider_name,
            condition |-> seed_patients[i].condition]
      ELSE OtherPatient(i) : i \in { j \in SeedIds : k[j] # "absent" } } :
      k \in [SeedIds -> {"absent", "seed", "other"}] } \cup {SeededPatients}

GateProc == 1

GateInit ==
  /\ users \in UserTables
  /\ patients \in PatientTables
  /\ writer = NoProc
  /\ pending = EmptyStore
  /\ pc = [p \in Procs |-> IF p = GateProc THEN "ready" ELSE "crashed"]
  /\ \E v \in Variants : variant = [p \in Procs |-> v]
  /\ runs = [p \in Procs |-> MaxRuns]
  /\ seedRuns = 0
  /\ user_id = [p \in Procs |-> None]
  /\ req = [p \in Procs |-> NoReq]
  /\ ret = [p \in Procs |-> NoResult]

GateSpec == GateInit /\ [][GateNext]_vars

\* ================================================================ claims
Known(U, u) == \E r \in U : r.username = u
MayRead(U, u) == \E r \in U : r.username = u /\ r.role \in {"doctor", "nurse"}
HasPatient(P, pid) == \E r \in P : r.id = pid
InCall(p) == pc[p] \in {"role_lookup", "patient_lookup", "returned"}

ExpectedUsers ==
  { [id |-> 1, username |-> "dr_smith",         role |-> "doctor"],
    [id |-> 2, username |-> "nurse_johnson",    role |-> "nurse"],
    [id |-> 3, username |-> "receptionist_amy", role |-> "receptionist"] }

ExpectedPatients ==
  { [id |-> 1, name |-> "John Doe",   provider_name |-> "Dr. Smith", condition |-> "Flu"],
    [id |-> 2, name |-> "Jane Roe",   provider_name |-> "Dr. Smith", condition |-> "Diabetes"],
    [id |-> 3, name |-> "Mary Major", provider_name |-> "Dr. Brown", condition |-> "Asthma"] }

\* C1: a caller that is unknown or whose role is not doctor or nurse gets, in
\* both variants, the same result for every patient id and every content of
\* the patients table (each is compared with the result over an empty
\* patients table and id 0, so any two stores with the same users agree), and
\* its call never reaches the patient lookup.
C1_NoExistenceLeak ==
  /\ \A u \in Usernames : ~MayRead(users, u) =>
       \A pid \in PatientIds :
         /\ get_patient_record(users, patients, u, pid)
              = get_patient_record(users, {}, u, 0)
         /\ wrapper_get_patient_record(users, patients, u, pid)
              = wrapper_get_patient_record(users, {}, u, 0)
         /\ get_patient_record(users, {}, u, 0)
              = wrapper_get_patient_record(users, {}, u, 0)
  /\ \A p \in Procs :
       /\ pc[p] = "patient_lookup" => MayRead(users, req[p].user)
       /\ (pc[p] = "returned" /\ ~MayRead(users, req[p].user)) =>
            ret[p] = get_patient_record(users, {}, req[p].user, 0)

C1_Witness ==
  \E p \in Procs :
    /\ pc[p] = "returned"
    /\ Known(users, req[p].user)
    /\ ~MayRead(users, req[p].user)
    /\ HasPatient(patients, req[p].patient_id)
    /\ \E q \in PatientIds : ~HasPatient(patients, q)

\* C2: a username absent from the users table gets "Access denied: user not
\* found" for every patient id, also the id of a patient that exists.
C2_UnknownUser ==
  /\ \A u \in Usernames : ~Known(users, u) =>
       \A pid \in PatientIds :
         /\ get_patient_record(users, patients, u, pid) = UserNotFound
         /\ wrapper_get_patient_record(users, patients, u, pid) = UserNotFound
  /\ \A p \in Procs :
       (pc[p] = "returned" /\ ~Known(users, req[p].user)) =>
         ret[p] = [error |-> "Access denied: user not found"]

C2_Witness ==
  \E p \in Procs :
    /\ pc[p] = "returned"
    /\ variant[p] = "best"
    /\ ~Known(users, req[p].user)
    /\ HasPatient(patients, req[p].patient_id)
    /\ ret[p] = UserNotFound

\* C3: a username present in the users table with a role other than doctor
\* and nurse gets "Access denied: insufficient privileges" for every patient
\* id, whether or not the patient exists.
C3_InsufficientPrivileges ==
  /\ \A u \in Usernames : (Known(users, u) /\ ~MayRead(users, u)) =>
       \A pid \in PatientIds :
         /\ get_patient_record(users, patients, u, pid) = InsufficientPrivileges
         /\ wrapper_get_patient_record(users, patients, u, pid) = InsufficientPrivileges
  /\ \A p \in Procs :
       (pc[p] = "returned" /\ Known(users, req[p].user) /\ ~MayRead(users, req[p].user)) =>
         ret[p] = [error |-> "Access denied: insufficient privileges"]

C3_Witness ==
  \E p \in Procs :
    /\ pc[p] = "returned"
    /\ req[p].user = "receptionist_amy"
    /\ Known(users, req[p].user)
    /\ HasPatient(patients, req[p].patient_id)
    /\ ret[p] = InsufficientPrivileges

\* C4: a doctor or nurse asking for a patient id that is in the patients
\* table gets exactly the stored row of that id; over the store that seeding
\* builds from empty, ("dr_smith", 3) gets the Mary Major record.
C4_StoredRecord ==
  /\ \A u \in Usernames : MayRead(users, u) =>
       \A r \in patients :
         /\ get_patient_record(users, patients, u, r.id) = r
         /\ wrapper_get_patient_record(users, patients, u, r.id) = r
  /\ \A p \in Procs :
       (pc[p] = "returned" /\ MayRead(users, req[p].user)
          /\ HasPatient(patients, req[p].patient_id)) =>
         ret[p] \in patients /\ ret[p].id = req[p].patient_id
  /\ (users = SeededUsers /\ patients = SeededPatients) =>
       /\ get_patient_record(users, patients, "dr_smith", 3)
            = [id |-> 3, name |-> "Mary Major", provider_name |-> "Dr. Brown",
               condition |-> "Asthma"]
       /\ wrapper_get_patient_record(users, patients, "dr_smith", 3)
            = [id |-> 3, name |-> "Mary Major", provider_name |-> "Dr. Brown",
               condition |-> "Asthma"]
       /\ {r.id : r \in patients} = {1, 2, 3}

C4_Witness ==
  \E p \in Procs :
    /\ users = SeededUsers
    /\ patients = SeededPatients
    /\ pc[p] = "returned"
    /\ req[p] = [user |-> "dr_smith", patient_id |-> 3]
    /\ ret[p].name = "Mary Major"

\* C5: a doctor or nurse asking for a patient id that is not in the patients
\* table gets "Patient not found".
C5_PatientNotFound ==
  /\ \A u \in Usernames : MayRead(users, u) =>
       \A pid \in PatientIds : ~HasPatient(patients, pid) =>
         /\ get_patient_record(users, patients, u, pid) = PatientNotFound
         /\ wrapper_get_patient_record(users, patients, u, pid) = PatientNotFound
  /\ \A p \in Procs :
       (pc[p] = "returned" /\ MayRead(users, req[p].user)
          /\ ~HasPatient(patients, req[p].patient_id)) =>
         ret[p] = [error |-> "Patient not found"]

C5_Witness ==
  \E p \in Procs :
    /\ pc[p] = "returned"
    /\ variant[p] = "best"
    /\ MayRead(users, req[p].user)
    /\ patients # {}
    /\ ~HasPatient(patients, req[p].patient_id)
    /\ ret[p] = PatientNotFound

\* C6: from an empty store, once the seeding block has run to its end, the
\* store holds exactly the 3 seed users and the 3 seed patients, and stays so
\* however many more times the block is run: a later run adds no row.
C6_SeedingIdempotent ==
  seedRuns >= 1 =>
    /\ users = ExpectedUsers
    /\ patients = ExpectedPatients
    /\ Cardinality(users) = 3
    /\ Cardinality(patients) = 3

\* process 1 ran the block twice, start to end, before process 2 did anything
C6_Witness ==
  /\ seedRuns = 2
  /\ runs[1] = 2
  /\ pc[1] = "ready"
  /\ runs[2] = 1
  /\ pc[2] = "count_users"
  /\ users = ExpectedUsers
  /\ patients = ExpectedPatients

SeedingEnded(p) ==
  pc[p] \notin {"count_users", "insert_users", "count_patients", "insert_patients",
                "commit"}

\* C7: when the processes that ran the seeding block against the empty store,
\* in any interleaving of their counts and inserts, have all left it, the
\* store holds exactly 3 users and 3 patients, no username and no patient
\* twice; no session's uncommitted rows are left behind.
C7_ConcurrentSeeding ==
  (\A p \in Procs : SeedingEnded(p)) =>
    /\ Cardinality(users) = 3
    /\ Cardinality(patients) = 3
    /\ Cardinality({r.username : r \in users}) = 3
    /\ Cardinality({r.name : r \in patients}) = 3
    /\ writer = NoProc

\* both processes counted an empty users table; one of them then lost
C7_Witness ==
  /\ runs = [p \in Procs |-> 1]
  /\ \E p, q \in Procs :
       /\ pc[p] = "ready"
       /\ pc[q] = "crashed"
  /\ seedRuns = 1
  /\ Cardinality(users) = 3
  /\ Cardinality(patients) = 3

\* C8: every result of a tool call on a wrapper is the result the gate gives
\* for the wrapper's user_id and the patient_id of the call, whatever identity
\* the request names, and no step of a call changes the wrapper's user_id.
C8_BoundIdentity ==
  /\ [](\A p \in Procs :
          (variant[p] = "best" /\ InCall(p)) =>
            /\ user_id[p] # None
            /\ req[p].user = user_id[p]
            /\ pc[p] = "returned" =>
                 ret[p] = get_patient_record(users, patients, user_id[p],
                                             req[p].patient_id))
  /\ [][\A p \in Procs : (variant[p] = "best" /\ InCall(p)) => user_id'[p] = user_id[p]]_vars

C8_Witness ==
  \E p \in Procs :
    /\ variant[p] = "best"
    /\ pc[p] = "returned"
    /\ user_id[p] = "receptionist_amy"
    /\ Known(users, "receptionist_amy")
    /\ MayRead(users, "dr_smith")
    /\ HasPatient(patients, req[p].patient_id)
    /\ ret[p] = InsufficientPrivileges

\* C9: over the same store the wrapper's call and the per-call function give
\* the same result for every username and patient id, and a call of either
\* variant returns that result.
C9_VariantsAgree ==
  /\ \A u \in Usernames, pid \in PatientIds :
       wrapper_get_patient_record(users, patients, u, pid)
         = get_patient_record(users, patients, u, pid)
  /\ \A p \in Procs :
       pc[p] = "returned" =>
         /\ ret[p] = get_patient_record(users, patients, req[p].user, req[p].patient_id)
         /\ ret[p] = wrapper_get_patient_record(users, patients, req[p].user,
                                                req[p].patient_id)

C9_Witness ==
  \E p \in Procs :
    /\ variant[p] = "best"
    /\ pc[p] = "returned"
    /\ Cardinality(users) >= 2
    /\ \E u \in Usernames : ~Known(users, u)
    /\ \E u \in Usernames : Known(users, u) /\ ~MayRead(users, u)
    /\ ret[p] \in patients

GateStep ==
  \E p \in Procs :
    /\ pc[p] \in {"ready", "role_lookup", "patient_lookup", "returned"}
    /\ pc'[p] \in {"ready", "role_lookup", "patient_lookup", "returned"}
    /\ << pc[p], user_id[p], req[p], ret[p] >> # << pc'[p], user_id'[p], req'[p], ret'[p] >>

\* C10: no step of a get_patient_record call (either variant, any caller, any
\* patient id, any outcome) changes the users or patients table, and while a
\* call is under way the users table is the seeded one, one role per username.
C10_ReadOnly ==
  /\ [][GateStep => (users' = users /\ patients' = patients)]_vars
  /\ [](\A p \in Procs : InCall(p) =>
          /\ users = ExpectedUsers
          /\ patients = ExpectedPatients
          /\ \A r, t \in users : r.username = t.username => r.role = t.role)

\* a denied call and a served call, after a second startup has re-run seeding
C10_Witness ==
  /\ seedRuns >= 2
  /\ pc[1] = "returned"
  /\ ret[1] \in {UserNotFound, InsufficientPrivileges, PatientNotFound}
  /\ pc[2] = "returned"
  /\ ret[2] \in patients
  /\ users = ExpectedUsers
====
